---- MODULE Spec2Model ----
(***************************************************************************)
(* Verification model of the SecureCipher client-side session engine:      *)
(*   - SecureCipherEngine  (utils/cryptoEngine.js): key store over         *)
(*     IndexedDB, key generation, fingerprint, signing, encryption;        *)
(*   - SecureApiClient     (utils/secureApiClient.js): session             *)
(*     initialisation, public-key registration, secure request builder;    *)
(*   - CryptoOnboarding    (components/CryptoOnboarding.jsx): the          *)
(*     first-use key generation that shares the key store.                 *)
(* Every asynchronous method is cut at its awaits: one action per stretch  *)
(* of code that runs without yielding to the event loop.                   *)
(***************************************************************************)
EXTENDS Integers, Sequences, FiniteSets, TLC

\* ------------------------------------------------------------------ bounds
\* Number of key pairs window.crypto.subtle.generateKey may hand out in a run.
MaxKeys == 2

\* Number of encryptData calls in an encryption run.
MaxCalls == 3

\* Number of values getRandomValues may give the IV in an encryption run.
MaxIv == 3

\* ------------------------------------------------------- JSON values
\* A JSON value is null, an atom (number or string, kept as its text) or an
\* object: a sequence of members in insertion order.
JNull == [t |-> "null", s |-> "", o |-> <<>>]
JAtom(text) == [t |-> "atom", s |-> text, o |-> <<>>]
JObj(members) == [t |-> "obj", s |-> "", o |-> members]
Member(key, value) == [k |-> key, v |-> value]

\* Object.keys(obj): the own keys in insertion order.
ObjectKeys(obj) == [i \in 1..Len(obj.o) |-> obj.o[i].k]

HasKey(obj, key) == \E i \in 1..Len(obj.o) : obj.o[i].k = key

GetKey(obj, key) == obj.o[CHOOSE i \in 1..Len(obj.o) : obj.o[i].k = key].v

\* Every property name of the model in UTF-16 code-unit order, the order
\* Array.prototype.sort() gives to strings.
KeyOrder ==
    <<"amount", "crv", "data", "endpoint", "ext", "key_ops", "kty", "method",
      "pin", "request_id", "timestamp", "x", "y">>

InSeq(x, seq) == \E i \in 1..Len(seq) : seq[i] = x

\* A sort() that leaves the keys in insertion order.
SortKeysInsertionOrder(keys) == keys

\* keys.sort(): the same keys, in code-unit order.
SortKeys(keys) == SelectSeq(KeyOrder, LAMBDA k : InSeq(k, keys))

\* JSON.stringify(value) and JSON.stringify(value, replacerArray), as the
\* sequence of tokens of the text produced. With an array replacer the
\* property list of EVERY object, nested ones included, is the replacer's
\* list, in the replacer's order; members it does not name are left out.
RECURSIVE Stringify(_, _, _)
RECURSIVE StringifyMembers(_, _, _, _, _)
StringifyMembers(obj, keys, i, useReplacer, replacer) ==
    IF i > Len(keys) THEN <<>>
    ELSE IF ~HasKey(obj, keys[i])
         THEN StringifyMembers(obj, keys, i + 1, useReplacer, replacer)
         ELSE <<keys[i], ":">>
              \o Stringify(GetKey(obj, keys[i]), useReplacer, replacer)
              \o <<",">>
              \o StringifyMembers(obj, keys, i + 1, useReplacer, replacer)

Stringify(value, useReplacer, replacer) ==
    IF value.t = "null" THEN <<"null">>
    ELSE IF value.t = "atom" THEN <<value.s>>
    ELSE <<"{">>
         \o StringifyMembers(value,
                             IF useReplacer THEN replacer ELSE ObjectKeys(value),
                             1, useReplacer, replacer)
         \o <<"}">>

\* signData's bytes: JSON.stringify(data, Object.keys(data).sort()).
SignedBytes(data) == Stringify(data, TRUE, SortKeys(ObjectKeys(data)))

\* generateFingerprint's keyString:
\* JSON.stringify(publicKeyJWK, Object.keys(publicKeyJWK).sort()).
KeyString(publicKeyJWK) ==
    Stringify(publicKeyJWK, TRUE, SortKeys(ObjectKeys(publicKeyJWK)))

\* encryptData's plaintext bytes: JSON.stringify(data).
PlainBytes(data) == Stringify(data, FALSE, <<>>)

\* ------------------------------------------------------- endpoints
\* An endpoint is its text and its path segments; every endpoint of the model
\* starts and ends with "/", so that endpoint.includes("/a/b/") is: a, b are
\* consecutive segments.
Endpoint(text, segments) == [name |-> text, segs |-> segments]

Includes(endpoint, pattern) ==
    \E i \in 1..(Len(endpoint.segs) - Len(pattern) + 1) :
        SubSeq(endpoint.segs, i, i + Len(pattern) - 1) = pattern

encryptedEndpoints ==
    { <<"transactions">>, <<"transfer">>, <<"accounts">>, <<"auth", "login">>,
      <<"auth", "change-password">>, <<"profile", "update">>, <<"cards">>,
      <<"beneficiaries">> }

signedEndpoints ==
    { <<"transactions">>, <<"accounts">>, <<"profile">>, <<"cards">>,
      <<"beneficiaries">>, <<"auth", "logout">>, <<"auth", "change-password">> }

shouldEncrypt(endpoint) == \E ep \in encryptedEndpoints : Includes(endpoint, ep)

shouldSign(endpoint) == \E ep \in signedEndpoints : Includes(endpoint, ep)

\* The endpoints the service layer calls (services/bankingService.js).
EpTransfer == Endpoint("/transactions/transfer/", <<"transactions", "transfer">>)
EpProfile == Endpoint("/user/profile/", <<"user", "profile">>)
EpLogin == Endpoint("/auth/login/", <<"auth", "login">>)
EpRegister == Endpoint("/auth/register/", <<"auth", "register">>)

Endpoints == {EpTransfer, EpProfile, EpLogin, EpRegister}

\* ------------------------------------------------------- key store
\* "no record": store.get resolves with undefined.
NoKey == 0

\* A private-key record that is present but that importKey rejects.
BadKey == -1

\* The placeholder generateFingerprint returns when hashing throws.
UnknownFp == -1

\* "no fingerprint read yet" in a caller's locals.
NoFp == 0

\* SHA-256 of the canonical public key, first 16 hex digits: one digest per
\* public key (distinct keys are taken to have distinct digests).
Digest(k) == 100 + k

NoMeta == [present |-> FALSE, fingerprint |-> NoFp]

\* The three records of the object store "keys".
EmptyStore == [priv |-> NoKey, pub |-> NoKey, meta |-> NoMeta]

\* generateFingerprint(publicKeyJWK): the digest, or 'unknown' when hashing throws.
generateFingerprint(k, hashOk) == IF hashOk THEN Digest(k) ELSE UnknownFp

\* storeKeyPair(keyPair): one readwrite transaction putting the three records.
storeKeyPair(k, hashOk) ==
    [priv |-> k, pub |-> k,
     meta |-> [present |-> TRUE, fingerprint |-> generateFingerprint(k, hashOk)]]

\* hasKeys(): !!metadata; false when the database or the read fails.
hasKeysOptimistic(st, dbOk) == ~dbOk \/ st.meta.present

hasKeys(st, dbOk) == dbOk /\ st.meta.present

\* getPrivateKey(): resolves with the imported key, rejects when the database
\* fails or the record is absent, and never settles when importKey throws
\* inside the async onsuccess callback.
getPrivateKey(st, dbOk) ==
    IF ~dbOk \/ st.priv = NoKey THEN "rejected"
    ELSE IF st.priv = BadKey THEN "pending"
    ELSE "resolved"

\* getPublicKeyJWK(): rejects when the database fails or the record is absent.
getPublicKeyJWK(st, dbOk) == IF dbOk /\ st.pub # NoKey THEN "resolved" ELSE "rejected"

\* getKeyFingerprint(): rejects unless the metadata record holds a fingerprint.
getKeyFingerprint(st, dbOk) == IF dbOk /\ st.meta.present THEN "resolved" ELSE "rejected"

\* clearKeys(): store.clear(); returns without clearing when the database fails.
clearKeys(st, dbOk) == IF dbOk THEN EmptyStore ELSE st

\* ------------------------------------------------------- requests
\* Request payloads of the service layer.
P100 == JObj(<<Member("amount", JAtom("100"))>>)

Payloads == {P100}

\* The options argument: {} (direct callers) or {headers: {...}, ...} as
\* UnifiedApiClient.request always passes.
NoOptions == [has |-> FALSE, headers |-> {}]
UnifiedOptions == [has |-> TRUE, headers |-> {}]

OptionsSet == {NoOptions, UnifiedOptions}

Timestamp == "2026-01-01T00:00:00.000Z"
RequestId == "req_1767225600000_k3x9q2m1z"

\* requestPayload of createSecureRequest.
requestPayload(endpoint, method, data) ==
    JObj(<< Member("endpoint", JAtom(endpoint.name)),
            Member("method", JAtom(method)),
            Member("data", data),
            Member("timestamp", JAtom(Timestamp)),
            Member("request_id", JAtom(RequestId)) >>)

NoSig == [key |-> NoKey, bytes |-> <<>>]

\* signData(data) with private key k: an ECDSA signature is valid exactly for
\* the key and the bytes signed.
signDataUnsorted(k, data) == [key |-> k, bytes |-> PlainBytes(data)]

signData(k, data) == [key |-> k, bytes |-> SignedBytes(data)]

EncNull == [present |-> FALSE, plaintext |-> <<>>, key |-> FALSE]

\* encryptData returning the ciphertext and iv without the exported key.
encryptDataWithoutKey(data) ==
    [present |-> TRUE, plaintext |-> PlainBytes(data), key |-> FALSE]

\* encryptData(data): ciphertext of JSON.stringify(data), with the exported key.
encryptData(data) == [present |-> TRUE, plaintext |-> PlainBytes(data), key |-> TRUE]

SecureHeaders ==
    {"Content-Type", "X-Secure-Cipher", "X-Request-ID", "X-Timestamp",
     "X-Signature", "X-Fingerprint"}

RegularHeaders == {"Content-Type"}

\* { method, headers: {...base, ...options.headers}, body, ...options }: the
\* trailing spread of options replaces the headers member when options has one.
SpreadOptions(base, options) ==
    IF options.has THEN options.headers ELSE base \cup options.headers

\* requestOptions.headers after the Authorization header is added.
RequestHeaders(base, options, token) ==
    SpreadOptions(base, options) \cup (IF token THEN {"Authorization"} ELSE {})

NoBody == [kind |-> "none", data |-> JNull, signature |-> NoSig,
           public_key_fingerprint |-> NoFp, encrypted_data |-> EncNull]

\* JSON.stringify(secureRequest): the envelope, the signature, the
\* fingerprint and encrypted_data.
SecureBody(data, sig, fp, enc) ==
    [kind |-> "secure", data |-> data, signature |-> sig,
     public_key_fingerprint |-> fp, encrypted_data |-> enc]

PlainBody(data) ==
    [kind |-> "plain", data |-> data, signature |-> NoSig,
     public_key_fingerprint |-> NoFp, encrypted_data |-> EncNull]

NoEndpoint == Endpoint("", <<>>)

NoReq == [sent |-> FALSE, secure |-> FALSE, endpoint |-> NoEndpoint, method |-> "",
          headers |-> {}, body |-> NoBody, keyRegistered |-> FALSE]

\* ------------------------------------------------------- state
\* Callers of the secureApiClient singleton: the UI crypto context, which
\* calls initializeSession, and the service layer, which issues requests (and
\* calls initializeSession after login and registration).
Procs == {"ui", "svc"}

Requesters == {"svc"}

Keys == 1..MaxKeys

VARIABLES
    store,          \* the IndexedDB object store "keys", shared by every engine instance
    isInitialized,  \* secureApiClient.isInitialized
    authToken,      \* whether localStorage holds an authToken
    registered,     \* public keys the server accepted at /auth/register-key/
    nextKey,        \* the next key pair generateKey hands out
    proc,           \* per caller: position in initializeSession / createSecureRequest and locals
    ob,             \* the CryptoOnboarding component: position in initializeCrypto
    succeeded,      \* history: an initializeSession succeeded and no resetCryptoSession ran since
    canon,          \* inputs and outputs of the canonicalisation runs (SpecSign)
    txn,            \* the storeKeyPair transaction of each engine (SpecStore)
    encLog,         \* the AES key and IV of each encryptData call (SpecEncrypt)
    wire,           \* the last request handed to fetch, by what it holds (SpecWire)
    ctx             \* the state of the CryptoProvider context (SpecContext)

vars == <<store, isInitialized, authToken, registered, nextKey, proc, ob,
          succeeded, canon, txn, encLog, wire, ctx>>

\* A caller that is not inside any call.
IdleProc ==
    [pc |-> "idle", kind |-> "none",
     endpoint |-> NoEndpoint, method |-> "", data |-> JNull, options |-> NoOptions,
     startReady |-> FALSE,    \* history: the call began after a success, with no reset since
     seen |-> "unread",       \* history: the key store when hasKeys read it:
                              \*   "empty", "complete", "corrupt" (metadata without usable keys)
     gens |-> 0,              \* history: generateKeyPair calls of this call
     regs |-> 0,              \* history: registration requests sent by this call
     regKey |-> NoKey,        \* the public key in this call's registration request
     verified |-> "none",     \* history: outcome of verifyCryptoStatus
     initResult |-> "none",   \* how initializeSession settled: "none", "ok", "error"
     error |-> "none",        \* the step that rejected
     sig |-> NoSig, fp |-> NoFp, enc |-> EncNull,
     req |-> NoReq]

CanonIdle == [a |-> JNull, b |-> JNull, outA |-> <<>>, outB |-> <<>>, done |-> FALSE]

\* Nothing fetched yet.
NoWire == [to |-> "", parts |-> {}]

\* The CryptoProvider before its effect has run: cryptoReady false,
\* keyFingerprint null.
CtxUnmounted ==
    [pc |-> "mount", op |-> "initializeCrypto", cryptoReady |-> FALSE,
     keyFingerprint |-> NoFp]

\* No storeKeyPair transaction: the state of an engine between two calls.
NoTxn == [st |-> "idle", key |-> NoKey, fingerprint |-> NoFp, puts |-> 0, image |-> EmptyStore]

TxnIdle == [w \in Procs |-> NoTxn]

\* The key store at application start: empty (first visit), the identity of
\* an earlier visit (registered then), or that identity with its private key
\* record lost or no longer importable.
InitialStores ==
    { EmptyStore,
      storeKeyPair(1, TRUE),
      [storeKeyPair(1, TRUE) EXCEPT !.priv = NoKey],
      [storeKeyPair(1, TRUE) EXCEPT !.priv = BadKey] }

Init ==
    /\ store \in InitialStores
    /\ isInitialized = FALSE
    /\ authToken = FALSE
    /\ registered = IF store = EmptyStore THEN {} ELSE {1}
    /\ nextKey = IF store = EmptyStore THEN 1 ELSE 2
    /\ proc = [p \in Procs |-> IdleProc]
    /\ ob = "unmounted"
    /\ succeeded = FALSE
    /\ canon = CanonIdle
    /\ txn = TxnIdle
    /\ encLog = <<>>
    /\ wire = NoWire
    /\ ctx = CtxUnmounted

CompleteIdentity(st) ==
    /\ st.priv \in Keys
    /\ st.pub = st.priv
    /\ st.meta.present

StoreCondition(st) ==
    IF st = EmptyStore THEN "empty"
    ELSE IF CompleteIdentity(st) THEN "complete"
    ELSE "corrupt"

\* ------------------------------------------------------- SecureApiClient
\* Where a call goes once initializeSession has returned true.
AfterInit(rec) ==
    [rec EXCEPT !.pc = IF rec.kind = "init" THEN "done" ELSE "sign",
                !.initResult = "ok"]

\* initializeSession rejects: createSecureRequest awaits it outside its try,
\* so the rejection is the caller's.
InitFailed(rec, step) ==
    [rec EXCEPT !.pc = "failed", !.initResult = "error", !.error = step, !.regKey = NoKey]

\* A variant of initializeSession without the isInitialized test.
initializeSessionUnguarded(rec) == [rec EXCEPT !.pc = "hasKeys"]

\* initializeSession, up to its first await: return true when initialised,
\* else go on to hasKeys().
initializeSession(rec) ==
    IF isInitialized THEN AfterInit(rec) ELSE [rec EXCEPT !.pc = "hasKeys"]

NewCall(callKind) == [IdleProc EXCEPT !.kind = callKind, !.startReady = succeeded]

\* The arguments of a request: get and delete pass null data, post, put and
\* patch pass the caller's payload.
Arguments ==
    { [endpoint |-> e, method |-> "GET", data |-> JNull] : e \in Endpoints }
    \cup
    { [endpoint |-> e, method |-> "POST", data |-> d] : e \in Endpoints, d \in Payloads }

requiresCrypto(endpoint) == shouldSign(endpoint) \/ shouldEncrypt(endpoint)

WithArguments(rec, args) ==
    [rec EXCEPT !.endpoint = args.endpoint, !.method = args.method, !.data = args.data]

\* createRegularRequest: no session, no signature; fetch at once.
createRegularRequest(rec, options) ==
    [rec EXCEPT !.pc = "sent", !.options = options,
        !.req = [sent |-> TRUE, secure |-> FALSE,
                 endpoint |-> rec.endpoint, method |-> rec.method,
                 headers |-> RequestHeaders(RegularHeaders, options, authToken),
                 body |-> IF rec.method # "GET" /\ rec.data # JNull
                          THEN PlainBody(rec.data) ELSE NoBody,
                 keyRegistered |-> FALSE]]

\* A direct call of secureApiClient.initializeSession().
CallInitializeSession(p) ==
    /\ proc[p].pc = "idle"
    /\ proc' = [proc EXCEPT ![p] = initializeSession(NewCall("init"))]
    /\ UNCHANGED <<store, isInitialized, authToken, registered, nextKey, ob, succeeded, canon, txn, encLog, wire, ctx>>

\* smartRequest (through get, post, ...) for an endpoint that is to be signed
\* or encrypted: createSecureRequest, which starts with initializeSession.
\* createSecureRequest reads endpoint, method and data first when it builds
\* requestPayload, and options when it builds requestOptions; the model
\* draws each where it is first read.
CallSecureRequest(p) ==
    /\ p \in Requesters
    /\ proc[p].pc = "idle"
    /\ proc' = [proc EXCEPT ![p] = initializeSession(NewCall("request"))]
    /\ UNCHANGED <<store, isInitialized, authToken, registered, nextKey, ob, succeeded, canon, txn, encLog, wire, ctx>>

\* smartRequest for an endpoint that is neither to be signed nor encrypted.
CallRegularRequest(p) ==
    /\ p \in Requesters
    /\ proc[p].pc = "idle"
    /\ \E args \in Arguments, options \in OptionsSet :
          /\ ~requiresCrypto(args.endpoint)
          /\ proc' = [proc EXCEPT ![p] =
                         createRegularRequest(WithArguments(NewCall("request"), args), options)]
    /\ UNCHANGED <<store, isInitialized, authToken, registered, nextKey, ob, succeeded, canon, txn, encLog, wire, ctx>>

\* initializeSession: const hasKeys = await this.cryptoEngine.hasKeys().
HasKeys(p) ==
    /\ proc[p].pc = "hasKeys"
    /\ \E dbOk \in BOOLEAN :
          proc' = [proc EXCEPT ![p] =
                     [@ EXCEPT !.seen = StoreCondition(store),
                               !.pc = IF hasKeys(store, dbOk) THEN "verify" ELSE "generate"]]
    /\ UNCHANGED <<store, isInitialized, authToken, registered, nextKey, ob, succeeded, canon, txn, encLog, wire, ctx>>

\* What can make generateKeyPair reject: generateKey throws, or the key pair
\* is generated and storeKeyPair rejects (its transaction aborts, nothing is
\* written).
GenerateFailures == {"generateKey", "storeKeyPair"}

\* A variant of initializeSession that goes on to registerPublicKey when
\* storeKeyPair rejected.
GenerateKeyPairGoesOn(p) ==
    /\ proc[p].pc = "generate"
    /\ \E step \in GenerateFailures :
          proc' = [proc EXCEPT ![p] = [@ EXCEPT !.gens = @ + 1, !.error = step, !.pc = "register"]]
    /\ UNCHANGED <<store, isInitialized, authToken, registered, nextKey, ob, succeeded, canon, txn, encLog, wire, ctx>>

\* initializeSession: await this.cryptoEngine.generateKeyPair(). The key pair
\* is generated and stored, or generateKey / storeKeyPair throws and
\* generateKeyPair rejects. Key numbers count the key pairs that were
\* stored: a pair that was generated and not stored takes none.
GenerateKeyPair(p) ==
    /\ proc[p].pc = "generate"
    /\ \/ /\ nextKey \in Keys
          /\ \E hashOk \in BOOLEAN : store' = storeKeyPair(nextKey, hashOk)
          /\ nextKey' = nextKey + 1
          /\ proc' = [proc EXCEPT ![p] = [@ EXCEPT !.gens = @ + 1, !.pc = "register"]]
       \/ /\ \E step \in GenerateFailures :
                proc' = [proc EXCEPT ![p] = InitFailed([@ EXCEPT !.gens = @ + 1], step)]
          /\ UNCHANGED <<store, nextKey>>
    /\ UNCHANGED <<isInitialized, authToken, registered, ob, succeeded, canon, txn, encLog, wire, ctx>>

\* A variant of registerPublicKey that posts the key twice.
RegisterPublicKeyTwice(p) ==
    /\ proc[p].pc = "register"
    /\ proc' = [proc EXCEPT ![p] = [@ EXCEPT !.regs = @ + 2, !.regKey = store.pub, !.pc = "regWait"]]
    /\ UNCHANGED <<store, isInitialized, authToken, registered, nextKey, ob, succeeded, canon, txn, encLog, wire, ctx>>

\* registerPublicKey, up to the fetch: read the public key and the
\* fingerprint, POST /auth/register-key/.
RegisterPublicKey(p) ==
    /\ proc[p].pc = "register"
    /\ \E dbOk \in BOOLEAN :
          proc' = [proc EXCEPT ![p] =
                     IF getPublicKeyJWK(store, dbOk) = "resolved"
                        /\ getKeyFingerprint(store, dbOk) = "resolved"
                     THEN [@ EXCEPT !.regs = @ + 1, !.regKey = store.pub, !.pc = "regWait"]
                     ELSE InitFailed(@, "registerPublicKey")]
    /\ UNCHANGED <<store, isInitialized, authToken, registered, nextKey, ob, succeeded, canon, txn, encLog, wire, ctx>>

\* registerPublicKey, the response: ok, or !response.ok / a network error,
\* which reject. On ok initializeSession sets isInitialized and returns true.
RegisterResponse(p) ==
    /\ proc[p].pc = "regWait"
    /\ \/ /\ registered' = registered \cup {proc[p].regKey}
          /\ isInitialized' = TRUE
          /\ succeeded' = TRUE
          /\ proc' = [proc EXCEPT ![p] = AfterInit(@)]
       \/ /\ proc' = [proc EXCEPT ![p] = InitFailed(@, "registerPublicKey")]
          /\ UNCHANGED <<registered, isInitialized, succeeded>>
    /\ UNCHANGED <<store, authToken, nextKey, ob, canon, txn, encLog, wire, ctx>>

VerifyOutcomes == {"verified", "not-verified", "no-fingerprint"}

\* A variant of verifyCryptoStatus that rejects unless the server confirms.
VerifyCryptoStatusStrict(p) ==
    /\ proc[p].pc = "verify"
    /\ \E outcome \in VerifyOutcomes :
          proc' = [proc EXCEPT ![p] =
                     IF outcome = "verified" THEN AfterInit([@ EXCEPT !.verified = outcome])
                     ELSE InitFailed([@ EXCEPT !.verified = outcome], "verifyCryptoStatus")]
    /\ isInitialized' = TRUE
    /\ succeeded' = TRUE
    /\ UNCHANGED <<store, authToken, registered, nextKey, ob, canon, txn, encLog, wire, ctx>>

\* verifyCryptoStatus: the server confirms the fingerprint, or it does not
\* (response not ok, network error), or the fingerprint cannot be read; every
\* failure is caught and logged. Then
\* initializeSession sets isInitialized and returns true.
VerifyCryptoStatus(p) ==
    /\ proc[p].pc = "verify"
    /\ \E dbOk \in BOOLEAN, outcome \in VerifyOutcomes :
          /\ (outcome = "no-fingerprint") <=> (getKeyFingerprint(store, dbOk) = "rejected")
          /\ proc' = [proc EXCEPT ![p] = AfterInit([@ EXCEPT !.verified = outcome])]
    /\ isInitialized' = TRUE
    /\ succeeded' = TRUE
    /\ UNCHANGED <<store, authToken, registered, nextKey, ob, canon, txn, encLog, wire, ctx>>

\* A variant of the catch block of createSecureRequest that falls back to the
\* regular request.
RequestFallsBack(rec, step) == createRegularRequest([rec EXCEPT !.error = step], NoOptions)

\* createSecureRequest rejects from inside its try block.
RequestFailed(rec, step) == [rec EXCEPT !.pc = "failed", !.error = step]

\* The locals of createSecureRequest once initializeSession has returned: the
\* history of the initializeSession part ends here.
SecureRequestOf(rec, args) ==
    WithArguments([IdleProc EXCEPT !.kind = rec.kind, !.initResult = rec.initResult], args)

\* createSecureRequest: requestPayload is built and
\* signature = await signData(requestPayload).
SignData(p) ==
    /\ proc[p].pc = "sign"
    /\ \E args \in Arguments, dbOk \in BOOLEAN, signOk \in BOOLEAN :
          LET got == getPrivateKey(store, dbOk)
              rec == SecureRequestOf(proc[p], args)
          IN  /\ requiresCrypto(args.endpoint)
              /\ proc' = [proc EXCEPT ![p] =
                    IF got = "pending" THEN [rec EXCEPT !.pc = "hung"]
                    ELSE IF got = "rejected" \/ ~signOk THEN RequestFailed(rec, "signData")
                    ELSE [rec EXCEPT !.pc = "fingerprint",
                             !.sig = signData(store.priv,
                                              requestPayload(rec.endpoint, rec.method, rec.data))]]
    /\ UNCHANGED <<store, isInitialized, authToken, registered, nextKey, ob, succeeded, canon, txn, encLog, wire, ctx>>

\* The fetch of createSecureRequest: secureRequest and requestOptions, where
\* the options argument is read.
Dispatch(rec, fp, enc, options) ==
    [rec EXCEPT !.pc = "sent", !.fp = fp, !.enc = enc, !.options = options,
        !.req = [sent |-> TRUE, secure |-> TRUE,
                 endpoint |-> rec.endpoint, method |-> rec.method,
                 headers |-> RequestHeaders(SecureHeaders, options, authToken),
                 body |-> IF rec.method # "GET"
                          THEN SecureBody(rec.data, rec.sig, fp, enc) ELSE NoBody,
                 keyRegistered |-> rec.sig.key \in registered]]

\* createSecureRequest: fingerprint = await getKeyFingerprint(); when nothing
\* is to be encrypted the request is assembled and fetched in the same turn.
GetKeyFingerprint(p) ==
    /\ proc[p].pc = "fingerprint"
    /\ \E dbOk \in BOOLEAN, options \in OptionsSet :
          LET rec == proc[p]
          IN  proc' = [proc EXCEPT ![p] =
                 IF getKeyFingerprint(store, dbOk) = "rejected"
                 THEN RequestFailed(rec, "getKeyFingerprint")
                 ELSE IF rec.data # JNull /\ shouldEncrypt(rec.endpoint)
                 THEN [rec EXCEPT !.pc = "encrypt", !.fp = store.meta.fingerprint]
                 ELSE Dispatch(rec, store.meta.fingerprint, EncNull, options)]
    /\ UNCHANGED <<store, isInitialized, authToken, registered, nextKey, ob, succeeded, canon, txn, encLog, wire, ctx>>

\* createSecureRequest: encryptedData = await encryptData(data), then the fetch.
EncryptData(p) ==
    /\ proc[p].pc = "encrypt"
    /\ \E encOk \in BOOLEAN, options \in OptionsSet :
          LET rec == proc[p]
          IN  proc' = [proc EXCEPT ![p] =
                 IF encOk THEN Dispatch(rec, rec.fp, encryptData(rec.data), options)
                 ELSE RequestFailed(rec, "encryptData")]
    /\ UNCHANGED <<store, isInitialized, authToken, registered, nextKey, ob, succeeded, canon, txn, encLog, wire, ctx>>

\* The call has settled and its caller goes on.
Return(p) ==
    /\ proc[p].pc \in {"sent", "done", "failed"}
    /\ proc' = [proc EXCEPT ![p] = IdleProc]
    /\ UNCHANGED <<store, isInitialized, authToken, registered, nextKey, ob, succeeded, canon, txn, encLog, wire, ctx>>

\* What resetCryptoSession returns: clearKeys catches its own failure and
\* returns false, the result is dropped, so the catch of resetCryptoSession
\* is never entered and it returns true.
resetCryptoSessionReturns(dbOk) == TRUE

\* resetCryptoSession: await clearKeys() (which reports a failure by
\* returning false, not by throwing), then isInitialized = false.
ResetCryptoSession ==
    /\ \E dbOk \in BOOLEAN : store' = clearKeys(store, dbOk)
    /\ isInitialized' = FALSE
    /\ succeeded' = FALSE
    /\ UNCHANGED <<authToken, registered, nextKey, proc, ob, canon, txn, encLog, wire, ctx>>

\* getCryptoStatus() of the crypto context: hasKeys, then the fingerprint when
\* there are keys, else null; a rejected read gives {hasKeys: false,
\* fingerprint: null}.
getCryptoStatus(st, initialized, dbOk) ==
    IF hasKeys(st, dbOk) /\ getKeyFingerprint(st, dbOk) = "resolved"
    THEN [hasKeys |-> TRUE, fingerprint |-> st.meta.fingerprint, isInitialized |-> initialized]
    ELSE [hasKeys |-> FALSE, fingerprint |-> NoFp, isInitialized |-> initialized]

\* ------------------------------------------------------- CryptoOnboarding
\* The component is rendered; its effect runs initializeCrypto:
\* const hasKeys = await cryptoEngine.hasKeys(). With keys it reports
\* completion at once (onComplete(true)) and is taken down again.
ObInitializeCrypto ==
    /\ ob \in {"unmounted", "checking"}
    /\ \E dbOk \in BOOLEAN : ob' = IF hasKeys(store, dbOk) THEN "unmounted" ELSE "generating"
    /\ UNCHANGED <<store, isInitialized, authToken, registered, nextKey, proc, succeeded, canon, txn, encLog, wire, ctx>>

\* initializeCrypto: const keyPair = await cryptoEngine.generateKeyPair().
\* Nothing here registers the new public key.
ObGenerateKeyPair ==
    /\ ob = "generating"
    /\ \/ /\ nextKey \in Keys
          /\ \E hashOk \in BOOLEAN : store' = storeKeyPair(nextKey, hashOk)
          /\ nextKey' = nextKey + 1
          /\ ob' = "verifying"
       \/ /\ ob' = "error"
          /\ UNCHANGED <<store, nextKey>>
    /\ UNCHANGED <<isInitialized, authToken, registered, proc, succeeded, canon, txn, encLog, wire, ctx>>

\* initializeCrypto: read back the private key, the public key and the
\* fingerprint; then onComplete(true), and the component is taken down.
ObVerifyStorage ==
    /\ ob = "verifying"
    /\ \E dbOk \in BOOLEAN :
          ob' = IF getPrivateKey(store, dbOk) = "pending" THEN "hung"
                ELSE IF /\ getPrivateKey(store, dbOk) = "resolved"
                        /\ getPublicKeyJWK(store, dbOk) = "resolved"
                        /\ getKeyFingerprint(store, dbOk) = "resolved"
                THEN "unmounted"
                ELSE "error"
    /\ UNCHANGED <<store, isInitialized, authToken, registered, nextKey, proc, succeeded, canon, txn, encLog, wire, ctx>>

\* retrySetup: clearKeys(), then initializeCrypto again.
ObRetrySetup ==
    /\ ob = "error"
    /\ \E dbOk \in BOOLEAN : store' = clearKeys(store, dbOk)
    /\ ob' = "checking"
    /\ UNCHANGED <<isInitialized, authToken, registered, nextKey, proc, succeeded, canon, txn, encLog, wire, ctx>>

\* ------------------------------------------------------- specification
Next ==
    \/ \E p \in Procs : CallInitializeSession(p)
    \/ \E p \in Procs : CallSecureRequest(p)
    \/ \E p \in Procs : CallRegularRequest(p)
    \/ \E p \in Procs : HasKeys(p)
    \/ \E p \in Procs : GenerateKeyPair(p)
    \/ \E p \in Procs : RegisterPublicKey(p)
    \/ \E p \in Procs : RegisterResponse(p)
    \/ \E p \in Procs : VerifyCryptoStatus(p)
    \/ \E p \in Procs : SignData(p)
    \/ \E p \in Procs : GetKeyFingerprint(p)
    \/ \E p \in Procs : EncryptData(p)
    \/ \E p \in Procs : Return(p)
    \/ ResetCryptoSession
    \/ ObInitializeCrypto
    \/ ObGenerateKeyPair
    \/ ObVerifyStorage
    \/ ObRetrySetup

Spec == Init /\ [][Next]_vars

\* ------------------------------------------------------- canonicalisation runs
\* Payloads for the canonicalisation runs: absent, empty, one field with two
\* values, two fields in both insertion orders, and a field whose name is
\* also a name of the envelope.
P200 == JObj(<<Member("amount", JAtom("200"))>>)
PAmountPin == JObj(<<Member("amount", JAtom("100")), Member("pin", JAtom("1111"))>>)
PPinAmount == JObj(<<Member("pin", JAtom("1111")), Member("amount", JAtom("100"))>>)
PAmountPin2 == JObj(<<Member("amount", JAtom("100")), Member("pin", JAtom("2222"))>>)
PMethod100 == JObj(<<Member("method", JAtom("100"))>>)
PMethod200 == JObj(<<Member("method", JAtom("200"))>>)

\* Two fields whose names are names of the envelope, in both insertion orders.
PMethodEndpoint ==
    JObj(<<Member("method", JAtom("100")), Member("endpoint", JAtom("200"))>>)
PEndpointMethod ==
    JObj(<<Member("endpoint", JAtom("200")), Member("method", JAtom("100"))>>)

SignPayloads ==
    {JNull, JObj(<<>>), P100, P200, PAmountPin, PPinAmount, PAmountPin2,
     PMethod100, PMethod200, PMethodEndpoint, PEndpointMethod}

\* The same object with its members inserted in the opposite order.
Reversed(obj) == JObj([i \in 1..Len(obj.o) |-> obj.o[Len(obj.o) + 1 - i]])

\* exportKey("jwk", keyPair.publicKey) of a P-384 verification key; key_ops
\* (["verify"]) is kept as one atom.
PublicKeyJWK(x, y) ==
    JObj(<< Member("crv", JAtom("P-384")), Member("ext", JAtom("true")),
            Member("key_ops", JAtom("verify")), Member("kty", JAtom("EC")),
            Member("x", JAtom(x)), Member("y", JAtom(y)) >>)

\* Public keys given to generateFingerprint: two keys, one of them also with
\* its members in the opposite order.
PublicKeys ==
    {PublicKeyJWK("x1", "y1"), Reversed(PublicKeyJWK("x1", "y1")),
     PublicKeyJWK("x2", "y2")}

\* The envelopes signData is given: requestPayload with each payload, and one
\* with another method.
SignEnvelopes ==
    { requestPayload(EpTransfer, "POST", d) : d \in SignPayloads }
    \cup { requestPayload(EpTransfer, "PUT", P100) }
    \cup { Reversed(requestPayload(EpTransfer, "POST", d)) : d \in {P100, PEndpointMethod} }

\* The canonical text of an input: generateFingerprint's for a public key,
\* signData's for an envelope.
Canonical(value) ==
    IF value \in PublicKeys THEN KeyString(value) ELSE SignedBytes(value)

InitSign ==
    /\ store = EmptyStore
    /\ isInitialized = FALSE
    /\ authToken = FALSE
    /\ registered = {}
    /\ nextKey = 1
    /\ proc = [p \in Procs |-> IdleProc]
    /\ ob = "unmounted"
    /\ succeeded = FALSE
    /\ \E a \in SignEnvelopes \cup PublicKeys, b \in SignEnvelopes \cup PublicKeys :
          canon = [CanonIdle EXCEPT !.a = a, !.b = b]
    /\ txn = TxnIdle
    /\ encLog = <<>>
    /\ wire = NoWire
    /\ ctx = CtxUnmounted

\* signData's encoder.encode(JSON.stringify(data, Object.keys(data).sort()))
\* on each of the two envelopes, generateFingerprint's keyString on public keys.
Canonicalize ==
    /\ ~canon.done
    /\ canon' = [canon EXCEPT !.outA = Canonical(canon.a),
                              !.outB = Canonical(canon.b),
                              !.done = TRUE]
    /\ UNCHANGED <<store, isInitialized, authToken, registered, nextKey, proc, ob, succeeded, txn, encLog, wire, ctx>>

NextSign == Canonicalize

SpecSign == InitSign /\ [][NextSign]_vars

\* ------------------------------------------------------- properties
InitPcs == {"hasKeys", "generate", "register", "regWait", "verify"}

SecurityHeaders == {"X-Request-ID", "X-Timestamp", "X-Signature", "X-Fingerprint"}

\* A secure request that has been handed to fetch.
SecureSent(p) == proc[p].req.sent /\ proc[p].req.secure

\* C1: every request that createSecureRequest signs and dispatches is signed
\* with a key whose public half the server accepted in an earlier successful
\* registerPublicKey.
C1_SignedUnderRegisteredKey ==
    \A p \in Procs : SecureSent(p) => proc[p].req.keyRegistered

\* C2: when two initializeSession calls are in flight together and both found
\* no identity, there is one generateKeyPair call and one registration
\* request between them.
C2_SingleProvisioning ==
    \A p \in Procs : \A q \in Procs \ {p} :
        (proc[p].pc \in InitPcs /\ proc[q].pc \in InitPcs
         /\ proc[p].seen = "empty" /\ proc[q].seen = "empty")
        => (proc[p].gens + proc[q].gens <= 1 /\ proc[p].regs + proc[q].regs <= 1)

\* C3: a secure request for an endpoint that shouldEncrypt selects, made with
\* a payload, carries the payload in its body only as encrypted_data: the
\* body has no plaintext data member.
C3_PayloadOnlyEncrypted ==
    \A p \in Procs :
        (SecureSent(p) /\ shouldEncrypt(proc[p].req.endpoint) /\ proc[p].data # JNull)
        => (proc[p].req.body.encrypted_data.present /\ proc[p].req.body.data = JNull)

\* The payload of an envelope.
PayloadOf(envelope) ==
    IF HasKey(envelope, "data") THEN GetKey(envelope, "data") ELSE JNull

\* Two payloads with the same fields of which one has another value.
DifferInFieldValue(a, b) ==
    /\ a.t = "obj" /\ b.t = "obj"
    /\ {a.o[i].k : i \in 1..Len(a.o)} = {b.o[i].k : i \in 1..Len(b.o)}
    /\ \E i \in 1..Len(a.o) : GetKey(b, a.o[i].k) # a.o[i].v

\* C4: two envelopes that differ in the value of a payload field never have
\* the same signed bytes.
C4_SignedBytesCoverPayload ==
    (canon.done /\ DifferInFieldValue(PayloadOf(canon.a), PayloadOf(canon.b)))
    => canon.outA # canon.outB

\* C5: when initializeSession, signData, getKeyFingerprint or encryptData
\* fails for an endpoint that is to be signed or encrypted, the request
\* rejects and nothing is transmitted: a call that failed has sent nothing,
\* and whatever is sent for such an endpoint is the secure request, after
\* each of these steps succeeded.
C5_FailureSendsNothing ==
    \A p \in Procs :
        /\ (proc[p].error # "none" => (proc[p].pc = "failed" /\ ~proc[p].req.sent))
        /\ (proc[p].req.sent /\ requiresCrypto(proc[p].req.endpoint))
           => /\ proc[p].req.secure
              /\ proc[p].initResult = "ok"
              /\ proc[p].sig # NoSig
              /\ proc[p].fp # NoFp
              /\ ((proc[p].data # JNull /\ shouldEncrypt(proc[p].req.endpoint))
                  => proc[p].enc.present)

\* C5 happens: encryptData failed after the envelope was signed, the call has
\* rejected and sent nothing.
C5_Witness ==
    \E p \in Procs :
        /\ proc[p].pc = "failed" /\ proc[p].error = "encryptData"
        /\ proc[p].sig # NoSig
        /\ requiresCrypto(proc[p].endpoint)
        /\ ~proc[p].req.sent

\* C6: every request of createSecureRequest carries X-Request-ID,
\* X-Timestamp, X-Signature and X-Fingerprint, whatever the options argument.
C6_SecurityHeadersSent ==
    \A p \in Procs : SecureSent(p) => SecurityHeaders \subseteq proc[p].req.headers

\* The call of p has run initializeSession.
RanInitializeSession(p) == proc[p].pc \in InitPcs \/ proc[p].initResult # "none"

\* C7: once initializeSession has succeeded and no reset has happened since,
\* a further call returns success at once, generates no key and sends no
\* registration.
C7_InitializeSessionIdempotent ==
    /\ succeeded => isInitialized
    /\ \A p \in Procs :
          (proc[p].startReady /\ RanInitializeSession(p))
          => /\ proc[p].initResult = "ok"
             /\ proc[p].pc \notin InitPcs
             /\ proc[p].seen = "unread"
             /\ proc[p].gens = 0
             /\ proc[p].regs = 0

\* C7 happens: a call of initializeSession made after an earlier success has
\* returned.
C7_Witness ==
    \E p \in Procs :
        /\ proc[p].startReady /\ proc[p].kind = "init" /\ proc[p].pc = "done"
        /\ proc[p].initResult = "ok"

\* C8: a successful initializeSession that found the key store empty has
\* gone through provisioning: one key pair generated, one registration
\* request, accepted by the server, no crypto-status check; and while the
\* store holds the key it registered, getCryptoStatus reports a fingerprint.
C8_FirstUseProvisions ==
    \A p \in Procs :
        (proc[p].seen = "empty" /\ proc[p].initResult = "ok" /\ proc[p].kind = "init")
        => /\ proc[p].gens = 1
           /\ proc[p].regs = 1
           /\ proc[p].verified = "none"
           /\ proc[p].regKey \in registered
           /\ (succeeded => isInitialized)
           /\ (store.pub = proc[p].regKey
               => getCryptoStatus(store, isInitialized, TRUE).fingerprint # NoFp)

\* C8 happens: the call has returned, the session is ready and the status
\* shows the fingerprint of the key it registered.
C8_Witness ==
    \E p \in Procs :
        /\ proc[p].seen = "empty" /\ proc[p].initResult = "ok" /\ proc[p].pc = "done"
        /\ proc[p].gens = 1 /\ proc[p].regs = 1
        /\ isInitialized
        /\ store.pub = proc[p].regKey
        /\ getCryptoStatus(store, isInitialized, TRUE).fingerprint = Digest(proc[p].regKey)

C10_CorruptIdentityFails ==
    \A p \in Procs :
        (proc[p].seen = "corrupt" /\ proc[p].initResult # "none")
        => proc[p].initResult = "error"

\* C11: a resetCryptoSession on a ready session that reports success leaves
\* the session uninitialized and the key store without an identity (hasKeys
\* false), whatever the outcome of the store clear.
C11_ResetClearsIdentity ==
    [][\A dbOk \in BOOLEAN :
          (isInitialized /\ ~isInitialized' /\ store' = clearKeys(store, dbOk)
           /\ resetCryptoSessionReturns(dbOk))
          => ~hasKeys(store', TRUE)]_vars

\* C12: no step of a call of initializeSession or createSecureRequest
\* overwrites or clears an identity that is in the key store; only the
\* explicit reset and retry do.
C12_IdentityOnlyResetExplicitly ==
    [][(CompleteIdentity(store) /\ proc' # proc) => store' = store]_vars

\* C14: signData always settles: no call stays pending in signData.
C14_SignDataSettles ==
    \A p \in Procs : proc[p].pc # "hung"

\* C18: the fingerprint getKeyFingerprint returns is the fingerprint of the
\* public key now in the store, so it is the same while the key pair stays
\* and another one after the key pair was replaced.
C18_FingerprintOfStoredKey ==
    (store.meta.present /\ store.pub # NoKey)
    => store.meta.fingerprint = Digest(store.pub)

\* The steps the call of p can take by itself, without an answer of the
\* server to its registration request: every step of p but RegisterResponse.
ClientStep(p) ==
    \/ CallInitializeSession(p) \/ CallSecureRequest(p) \/ CallRegularRequest(p)
    \/ HasKeys(p) \/ GenerateKeyPair(p) \/ RegisterPublicKey(p)
    \/ VerifyCryptoStatus(p) \/ SignData(p) \/ GetKeyFingerprint(p)
    \/ EncryptData(p) \/ Return(p)

\* C15: when the server does not answer the registration request,
\* initializeSession settles by itself (a timeout): a call that waits for
\* the answer always has a step of its own to take.
C15_RegistrationTimesOut ==
    \A p \in Procs : proc[p].pc = "regWait" => ENABLED ClientStep(p)

\* C16: when the key pair was generated and storeKeyPair rejects,
\* initializeSession rejects: the call has failed and has sent no
\* registration request, the step that failed changed neither isInitialized
\* nor the store, and no signature is made with a key that was not stored.
C16_StoreFailureRejects ==
    [][\A p \in Procs :
          proc'[p].error = "storeKeyPair"
          => /\ proc'[p].pc = "failed"
             /\ proc'[p].initResult = "error"
             /\ proc'[p].regs = 0
             /\ proc[p].error # "storeKeyPair"
                => (isInitialized' = isInitialized /\ store' = store
                    /\ registered' = registered)
             /\ \A q \in Procs : proc'[q].sig.key < nextKey']_vars

\* C16 happens: storeKeyPair rejected, the call has failed without a
\* registration request and the session is not initialized.
C16_Witness ==
    \E p \in Procs :
        /\ proc[p].error = "storeKeyPair" /\ proc[p].pc = "failed"
        /\ proc[p].gens = 1 /\ proc[p].regs = 0
        /\ ~isInitialized
        /\ store = EmptyStore

\* C19: hasKeys never rejects: it resolves to a boolean for every store and
\* every failure of the read, to false when the read fails, and to true only
\* when the metadata record is present; so a call of initializeSession
\* leaves its hasKeys step towards verifyCryptoStatus only with metadata in
\* the store, and never as a failure.
C19_HasKeysNeverRejects ==
    /\ \A dbOk \in BOOLEAN :
          /\ hasKeys(store, dbOk) \in BOOLEAN
          /\ hasKeys(store, dbOk) => store.meta.present
          /\ ~dbOk => ~hasKeys(store, dbOk)
    /\ \A p \in Procs :
          /\ proc[p].seen # "unread" => proc[p].pc # "hasKeys"
          /\ proc[p].pc = "verify" => proc[p].seen # "empty"
          /\ proc[p].error # "hasKeys"

\* C19 happens: the read failed on a store that holds an identity, hasKeys
\* resolved to false and the call went on to generate.
C19_Witness ==
    \E p \in Procs :
        /\ proc[p].seen = "complete" /\ proc[p].pc = "generate"
        /\ store.meta.present
        /\ ~hasKeys(store, FALSE)

\* C20: the signature is made over the envelope with the plaintext payload,
\* and before encryptData is called: a call that is about to encrypt or has
\* encrypted holds a signature, and the bytes signed are the canonical form
\* of requestPayload with the caller's data.
C20_SignedBeforeEncrypted ==
    \A p \in Procs :
        /\ (proc[p].pc = "encrypt" \/ proc[p].enc.present)
           => proc[p].sig # NoSig
        /\ proc[p].pc = "encrypt" => ~proc[p].enc.present
        /\ proc[p].sig # NoSig
           => proc[p].sig.bytes =
                 SignedBytes(requestPayload(proc[p].endpoint, proc[p].method, proc[p].data))
        /\ proc[p].enc.present => proc[p].enc.plaintext = PlainBytes(proc[p].data)

\* C20 happens: a request with a payload has been signed, then encrypted,
\* and sent.
C20_Witness ==
    \E p \in Procs :
        /\ SecureSent(p) /\ proc[p].data # JNull
        /\ proc[p].enc.present /\ proc[p].sig # NoSig

\* ------------------------------------------------------- storeKeyPair runs
\* storeKeyPair at the grain of its IndexedDB transaction. Each engine (the
\* one of SecureApiClient, the one of CryptoOnboarding) runs generateKeyPair;
\* storeKeyPair exports the keys, takes the fingerprint, opens one readwrite
\* transaction on the object store and requests three puts in it. IndexedDB
\* runs the readwrite transactions on one object store one at a time, applies
\* the requests of a transaction to an image that other transactions do not
\* see, and on commit makes the image the contents of the store; a request
\* that fails with no handler preventing the default aborts the transaction,
\* and an aborted transaction leaves the store as it was.
StoreOrder == <<"ecdsa_private_key", "ecdsa_public_key", "key_metadata">>

\* store.put of the n-th record of transaction t into its image.
PutRecord(t, n) ==
    IF StoreOrder[n] = "ecdsa_private_key" THEN [t.image EXCEPT !.priv = t.key]
    ELSE IF StoreOrder[n] = "ecdsa_public_key" THEN [t.image EXCEPT !.pub = t.key]
    ELSE [t.image EXCEPT !.meta = [present |-> TRUE, fingerprint |-> t.fingerprint]]

InitStore ==
    /\ store = EmptyStore
    /\ isInitialized = FALSE
    /\ authToken = FALSE
    /\ registered = {}
    /\ nextKey = 1
    /\ proc = [p \in Procs |-> IdleProc]
    /\ ob = "unmounted"
    /\ succeeded = FALSE
    /\ canon = CanonIdle
    /\ txn = TxnIdle
    /\ encLog = <<>>
    /\ wire = NoWire
    /\ ctx = CtxUnmounted

\* generateKeyPair: generateKey, then storeKeyPair up to the three put
\* requests: the transaction is created and waits for its turn.
StoreBegin(w) ==
    /\ txn[w].st = "idle"
    /\ nextKey \in Keys
    /\ \E hashOk \in BOOLEAN :
          txn' = [txn EXCEPT ![w] = [NoTxn EXCEPT !.st = "queued", !.key = nextKey,
                                        !.fingerprint = generateFingerprint(nextKey, hashOk)]]
    /\ nextKey' = nextKey + 1
    /\ UNCHANGED <<store, isInitialized, authToken, registered, proc, ob, succeeded, canon, encLog, wire, ctx>>

\* The transaction starts when no other readwrite transaction is running:
\* its image is the store as committed.
StoreStart(w) ==
    /\ txn[w].st = "queued"
    /\ \A v \in Procs : txn[v].st # "active"
    /\ txn' = [txn EXCEPT ![w] = [@ EXCEPT !.st = "active", !.image = store]]
    /\ UNCHANGED <<store, isInitialized, authToken, registered, nextKey, proc, ob, succeeded, canon, encLog, wire, ctx>>

\* The next put request succeeds.
StorePut(w) ==
    /\ txn[w].st = "active"
    /\ txn[w].puts < Len(StoreOrder)
    /\ txn' = [txn EXCEPT ![w] = [@ EXCEPT !.puts = @ + 1,
                                             !.image = PutRecord(txn[w], txn[w].puts + 1)]]
    /\ UNCHANGED <<store, isInitialized, authToken, registered, nextKey, proc, ob, succeeded, canon, encLog, wire, ctx>>

\* A variant of the failing put in which the transaction commits what the
\* earlier puts wrote.
StorePutFailsKeepsWrites(w) ==
    /\ txn[w].st = "active"
    /\ txn[w].puts < Len(StoreOrder)
    /\ txn' = [txn EXCEPT ![w] = [@ EXCEPT !.st = "aborted"]]
    /\ store' = txn[w].image
    /\ UNCHANGED <<isInitialized, authToken, registered, nextKey, proc, ob, succeeded, canon, encLog, wire, ctx>>

\* The next put request fails: its onerror handler rejects the promise and
\* does not prevent the default, so the transaction aborts.
StorePutFails(w) ==
    /\ txn[w].st = "active"
    /\ txn[w].puts < Len(StoreOrder)
    /\ txn' = [txn EXCEPT ![w] = [@ EXCEPT !.st = "aborted"]]
    /\ UNCHANGED <<store, isInitialized, authToken, registered, nextKey, proc, ob, succeeded, canon, encLog, wire, ctx>>

\* All requests are done: the transaction commits (oncomplete resolves the
\* promise), or the commit fails and the transaction aborts (onabort rejects).
StoreCommit(w) ==
    /\ txn[w].st = "active"
    /\ txn[w].puts = Len(StoreOrder)
    /\ \/ /\ store' = txn[w].image
          /\ txn' = [txn EXCEPT ![w] = [@ EXCEPT !.st = "complete"]]
       \/ /\ txn' = [txn EXCEPT ![w] = [@ EXCEPT !.st = "aborted"]]
          /\ UNCHANGED store
    /\ UNCHANGED <<isInitialized, authToken, registered, nextKey, proc, ob, succeeded, canon, encLog, wire, ctx>>

\* generateKeyPair has resolved or rejected.
StoreSettle(w) ==
    /\ txn[w].st \in {"complete", "aborted"}
    /\ txn' = [txn EXCEPT ![w] = NoTxn]
    /\ UNCHANGED <<store, isInitialized, authToken, registered, nextKey, proc, ob, succeeded, canon, encLog, wire, ctx>>

\* clearKeys: store.clear() in a readwrite transaction of its own.
StoreClear ==
    /\ \A v \in Procs : txn[v].st # "active"
    /\ \E dbOk \in BOOLEAN : store' = clearKeys(store, dbOk)
    /\ UNCHANGED <<isInitialized, authToken, registered, nextKey, proc, ob, succeeded, canon, txn, encLog, wire, ctx>>

NextStore ==
    \/ \E w \in Procs :
          \/ StoreBegin(w) \/ StoreStart(w) \/ StorePut(w) \/ StorePutFails(w)
          \/ StoreCommit(w) \/ StoreSettle(w)
    \/ StoreClear

SpecStore == InitStore /\ [][NextStore]_vars

\* What the four readers of the engine find in a store.
ReadersView(st) ==
    [hasKeys |-> hasKeys(st, TRUE),
     getPrivateKey |-> getPrivateKey(st, TRUE) = "resolved",
     getPublicKeyJWK |-> getPublicKeyJWK(st, TRUE) = "resolved",
     getKeyFingerprint |-> getKeyFingerprint(st, TRUE) = "resolved"]

\* C13: storeKeyPair is atomic. The store a reader can see is empty or holds
\* the three records of one identity, so the four readers agree on whether
\* there is an identity; and no record of an identity whose storeKeyPair
\* failed is in the store.
C13_StoreKeyPairAtomic ==
    /\ \/ store = EmptyStore
       \/ /\ store.priv \in Keys
          /\ store.pub = store.priv
          /\ store.meta.present
          /\ store.meta.fingerprint \in {Digest(store.pub), UnknownFp}
    /\ LET view == ReadersView(store)
       IN  /\ view.hasKeys = view.getPrivateKey
           /\ view.hasKeys = view.getPublicKeyJWK
           /\ view.hasKeys = view.getKeyFingerprint
    /\ \A w \in Procs :
          txn[w].st = "aborted" => (store.priv # txn[w].key /\ store.pub # txn[w].key)

\* C13 happens: a storeKeyPair failed after some of its puts, and the store
\* still holds the whole identity it held before.
C13_Witness ==
    \E w \in Procs :
        /\ txn[w].st = "aborted"
        /\ txn[w].puts \in {1, 2}
        /\ store # EmptyStore
        /\ store.priv = store.pub /\ store.priv # txn[w].key

\* ------------------------------------------------------- encryptData runs
\* encryptData(data, key = null) call by call: the AES key and the IV each
\* call encrypts with. AES keys are numbered in the order generateAESKey
\* makes them.
NoAesKey == 0

IVs == 1..MaxIv

\* The key generateAESKey returns after the calls of log.
generateAESKey(log) == 1 + Cardinality({i \in 1..Len(log) : ~log[i].given})

\* const aesKey = key || await this.generateAESKey()
AesKeyOf(key, log) == IF key # NoAesKey THEN key ELSE generateAESKey(log)

\* The keys a caller holds: each earlier call returned its key in the result.
ReturnedKeys(log) == {log[i].key : i \in 1..Len(log)}

InitEncrypt ==
    /\ store = EmptyStore
    /\ isInitialized = FALSE
    /\ authToken = FALSE
    /\ registered = {}
    /\ nextKey = 1
    /\ proc = [p \in Procs |-> IdleProc]
    /\ ob = "unmounted"
    /\ succeeded = FALSE
    /\ canon = CanonIdle
    /\ txn = TxnIdle
    /\ encLog = <<>>
    /\ wire = NoWire
    /\ ctx = CtxUnmounted

\* The log after encryptData(data, key) with the iv that getRandomValues gave.
Encrypted(key, iv) ==
    Append(encLog, [key |-> AesKeyOf(key, encLog), iv |-> iv, given |-> key # NoAesKey])

\* encryptData(data), as createSecureRequest calls it.
EncryptFresh ==
    /\ Len(encLog) < MaxCalls
    /\ \E iv \in IVs : encLog' = Encrypted(NoAesKey, iv)
    /\ UNCHANGED <<store, isInitialized, authToken, registered, nextKey, proc, ob, succeeded, canon, txn, wire, ctx>>

\* encryptData(data, key) with a key an earlier call returned.
EncryptWithKey ==
    /\ Len(encLog) < MaxCalls
    /\ \E key \in ReturnedKeys(encLog), iv \in IVs : encLog' = Encrypted(key, iv)
    /\ UNCHANGED <<store, isInitialized, authToken, registered, nextKey, proc, ob, succeeded, canon, txn, wire, ctx>>

NextEncrypt == EncryptFresh \/ EncryptWithKey

SpecEncrypt == InitEncrypt /\ [][NextEncrypt]_vars

\* C17: no two encryptData calls use the same (key, IV) pair, and every call
\* draws a new key: no two calls encrypt under the same key.
C17_KeyAndIvNeverReused ==
    \A i \in 1..Len(encLog) : \A j \in 1..Len(encLog) :
        i < j => /\ <<encLog[i].key, encLog[i].iv>> # <<encLog[j].key, encLog[j].iv>>
                 /\ encLog[i].key # encLog[j].key

\* C22: every request made through get, post, put, patch or delete is
\* signed, whatever the endpoint.
C22_EveryRequestSigned ==
    \A p \in Procs :
        proc[p].req.sent => (proc[p].req.secure /\ proc[p].sig # NoSig)

\* C23: transferMoney(data) and updateProfile(data) are each transmitted
\* with a signature and with the payload encrypted.
C23_DocumentedOperationsEncrypted ==
    \A p \in Procs :
        (proc[p].req.sent /\ proc[p].req.endpoint \in {EpTransfer, EpProfile}
         /\ proc[p].data # JNull)
        => /\ proc[p].req.body.signature # NoSig
           /\ proc[p].req.body.encrypted_data.present

\* C24: no identity is stored or registered with a placeholder in place of
\* the digest of its public key.
C24_NoPlaceholderFingerprint ==
    /\ store.meta.present => store.meta.fingerprint # UnknownFp
    /\ \A p \in Procs :
          proc[p].pc = "regWait" => store.meta.fingerprint # UnknownFp

\* C26: every transmitted request whose body holds an encrypted payload
\* holds, in the same body, the exported one-time symmetric key.
C26_EncryptedCarriesKey ==
    \A p \in Procs :
        (proc[p].req.sent /\ proc[p].req.body.encrypted_data.present)
        => proc[p].req.body.encrypted_data.key

C26_Witness ==
    \E p \in Procs :
        /\ SecureSent(p)
        /\ proc[p].req.endpoint = EpTransfer
        /\ proc[p].req.body.encrypted_data.present
        /\ proc[p].req.body.encrypted_data.key

\* C28: the signature and the fingerprint of one secure request belong to
\* the same identity, under every interleaving with regeneration or reset.
C28_SignatureAndFingerprintAgree ==
    \A p \in Procs :
        (SecureSent(p) /\ proc[p].fp # UnknownFp)
        => proc[p].fp = Digest(proc[p].sig.key)

\* C29: isInitialized is true only while the key store holds an identity
\* (stated for the least part of one: its key_metadata record).
C29_InitializedImpliesIdentity ==
    isInitialized => store.meta.present

\* The same JSON value up to the insertion order of the members of its
\* objects, at every depth.
RECURSIVE JsonEq(_, _)
JsonEq(a, b) ==
    /\ a.t = b.t
    /\ a.s = b.s
    /\ {a.o[i].k : i \in 1..Len(a.o)} = {b.o[i].k : i \in 1..Len(b.o)}
    /\ \A i \in 1..Len(a.o) : JsonEq(a.o[i].v, GetKey(b, a.o[i].k))

\* C25: two envelopes, or two public keys, that are the same value up to the
\* order of their fields at any nesting level have the same canonical text.
C25_CanonicalOrderIndependent ==
    (canon.done /\ JsonEq(canon.a, canon.b)) => canon.outA = canon.outB

\* Order differs at the top level and inside the payload (envelopes), or at
\* the top level of a public key.
C25_Witness ==
    /\ canon.done
    /\ JsonEq(canon.a, canon.b)
    /\ canon.outA = canon.outB
    /\ \/ /\ canon.a = Reversed(requestPayload(EpTransfer, "POST", PEndpointMethod))
          /\ canon.b = requestPayload(EpTransfer, "POST", PMethodEndpoint)
       \/ /\ canon.a = PublicKeyJWK("x1", "y1")
          /\ canon.b = Reversed(PublicKeyJWK("x1", "y1"))

\* ------------------------------------------------------- what requests hold
\* A request handed to fetch, by the kinds of value its URL, headers and body
\* hold and the key each came from. The key store has three records: the
\* private JWK, the public JWK and the metadata with the fingerprint; a
\* signature is made from the imported, non-extractable private key.
Part(kind, of) == [kind |-> kind, of |-> of]

PrivateKeyPart(st) == Part("private_key", st.priv)
PublicKeyPart(st) == Part("public_key", st.pub)
FingerprintPart(st) == Part("fingerprint", st.meta.fingerprint)
SignaturePart(st) == Part("signature", st.priv)

\* Authorization: Token ..., when localStorage holds one.
TokenParts == IF authToken THEN {Part("auth_token", 0)} ELSE {}

\* A registration body built from the whole key store.
RegistrationBodyAllRecords(st) ==
    {PrivateKeyPart(st), PublicKeyPart(st), FingerprintPart(st), Part("literal", 0)}

\* registerPublicKey's body: {public_key, algorithm, curve, fingerprint}.
RegistrationBody(st) ==
    {PublicKeyPart(st), FingerprintPart(st), Part("literal", 0)}

\* verifyCryptoStatus's URL: /auth/crypto-status/?fingerprint=...
CryptoStatusQuery(st) == {FingerprintPart(st)}

\* createSecureRequest's headers and body: the envelope with the payload,
\* the signature, the fingerprint, and encrypted_data with its exported
\* AES key; a GET has the headers only.
SecureRequestParts(st, args) ==
    {Part("literal", 0), SignaturePart(st), FingerprintPart(st)}
    \cup (IF args.method # "GET" /\ args.data # JNull
          THEN {Part("payload", 0)} ELSE {})
    \cup (IF args.method # "GET" /\ args.data # JNull /\ shouldEncrypt(args.endpoint)
          THEN {Part("ciphertext", 0), Part("aes_key", 0)} ELSE {})
    \cup TokenParts

\* createRegularRequest's body: the payload.
RegularRequestParts(args) ==
    (IF args.method # "GET" /\ args.data # JNull THEN {Part("payload", 0)} ELSE {})
    \cup TokenParts

InitWire == Init

\* cryptoEngine.generateKeyPair(): a new identity in the key store.
WireGenerateKeyPair ==
    /\ nextKey \in Keys
    /\ \E hashOk \in BOOLEAN : store' = storeKeyPair(nextKey, hashOk)
    /\ nextKey' = nextKey + 1
    /\ UNCHANGED <<isInitialized, authToken, registered, proc, ob, succeeded, canon, txn, encLog, wire, ctx>>

\* cryptoEngine.clearKeys().
WireClearKeys ==
    /\ store # EmptyStore
    /\ store' = clearKeys(store, TRUE)
    /\ UNCHANGED <<isInitialized, authToken, registered, nextKey, proc, ob, succeeded, canon, txn, encLog, wire, ctx>>

\* setAuthToken(token) after login or registration.
SetAuthToken ==
    /\ ~authToken
    /\ authToken' = TRUE
    /\ UNCHANGED <<store, isInitialized, registered, nextKey, proc, ob, succeeded, canon, txn, encLog, wire, ctx>>

\* clearAuthToken().
ClearAuthToken ==
    /\ authToken
    /\ authToken' = FALSE
    /\ UNCHANGED <<store, isInitialized, registered, nextKey, proc, ob, succeeded, canon, txn, encLog, wire, ctx>>

\* registerPublicKey: the two reads, then the fetch.
WireRegisterPublicKey ==
    /\ getPublicKeyJWK(store, TRUE) = "resolved"
    /\ getKeyFingerprint(store, TRUE) = "resolved"
    /\ wire' = [to |-> "/auth/register-key/", parts |-> RegistrationBody(store)]
    /\ UNCHANGED <<store, isInitialized, authToken, registered, nextKey, proc, ob, succeeded, canon, txn, encLog, ctx>>

\* verifyCryptoStatus: the read, then the fetch.
WireVerifyCryptoStatus ==
    /\ getKeyFingerprint(store, TRUE) = "resolved"
    /\ wire' = [to |-> "/auth/crypto-status/", parts |-> CryptoStatusQuery(store)]
    /\ UNCHANGED <<store, isInitialized, authToken, registered, nextKey, proc, ob, succeeded, canon, txn, encLog, ctx>>

\* smartRequest for an endpoint that requires crypto: createSecureRequest
\* signs, reads the fingerprint, encrypts and fetches.
WireSecureRequest ==
    /\ getPrivateKey(store, TRUE) = "resolved"
    /\ getKeyFingerprint(store, TRUE) = "resolved"
    /\ \E args \in Arguments :
          /\ requiresCrypto(args.endpoint)
          /\ wire' = [to |-> args.endpoint.name, parts |-> SecureRequestParts(store, args)]
    /\ UNCHANGED <<store, isInitialized, authToken, registered, nextKey, proc, ob, succeeded, canon, txn, encLog, ctx>>

\* smartRequest for any other endpoint: createRegularRequest.
WireRegularRequest ==
    /\ \E args \in Arguments :
          /\ ~requiresCrypto(args.endpoint)
          /\ wire' = [to |-> args.endpoint.name, parts |-> RegularRequestParts(args)]
    /\ UNCHANGED <<store, isInitialized, authToken, registered, nextKey, proc, ob, succeeded, canon, txn, encLog, ctx>>

NextWire ==
    \/ WireGenerateKeyPair
    \/ WireClearKeys
    \/ SetAuthToken
    \/ ClearAuthToken
    \/ WireRegisterPublicKey
    \/ WireVerifyCryptoStatus
    \/ WireSecureRequest
    \/ WireRegularRequest

SpecWire == InitWire /\ [][NextWire]_vars

\* C21: no request (registration, crypto-status check, secure or regular)
\* holds private key material; of the key store only the public key, the
\* fingerprint and signatures go out.
C21_PrivateKeyNeverSent ==
    \A part \in wire.parts :
        /\ part.kind # "private_key"
        /\ part.kind \in {"public_key", "fingerprint", "signature", "literal",
                          "payload", "ciphertext", "aes_key", "auth_token"}

\* A registration and a signed request of a stored identity have gone out.
C21_Witness ==
    /\ store.priv \in Keys
    /\ \/ /\ wire.to = "/auth/register-key/"
          /\ PublicKeyPart(store) \in wire.parts
       \/ /\ wire.to = EpTransfer.name
          /\ SignaturePart(store) \in wire.parts

\* ------------------------------------------------------- bankingService.logout
EpLogout == Endpoint("/auth/logout/", <<"auth", "logout">>)

\* this.client.post('/auth/logout/', {})
LogoutArguments == [endpoint |-> EpLogout, method |-> "POST", data |-> JObj(<<>>)]

InitLogout == Init

\* logout(): post('/auth/logout/', {}) goes through smartRequest; the
\* endpoint is one of signedEndpoints, so createSecureRequest runs and
\* starts with initializeSession.
Logout(p) ==
    /\ proc[p].pc = "idle"
    /\ requiresCrypto(LogoutArguments.endpoint)
    /\ proc' = [proc EXCEPT ![p] = initializeSession(NewCall("logout"))]
    /\ UNCHANGED <<store, isInitialized, authToken, registered, nextKey, ob, succeeded, canon, txn, encLog, wire, ctx>>

\* createSecureRequest of the logout post: requestPayload is built and
\* signature = await signData(requestPayload).
LogoutSignData(p) ==
    /\ proc[p].pc = "sign"
    /\ proc[p].kind = "logout"
    /\ \E dbOk \in BOOLEAN, signOk \in BOOLEAN :
          LET got == getPrivateKey(store, dbOk)
              rec == SecureRequestOf(proc[p], LogoutArguments)
          IN  proc' = [proc EXCEPT ![p] =
                 IF got = "pending" THEN [rec EXCEPT !.pc = "hung"]
                 ELSE IF got = "rejected" \/ ~signOk THEN RequestFailed(rec, "signData")
                 ELSE [rec EXCEPT !.pc = "fingerprint",
                          !.sig = signData(store.priv,
                                           requestPayload(rec.endpoint, rec.method, rec.data))]]
    /\ UNCHANGED <<store, isInitialized, authToken, registered, nextKey, ob, succeeded, canon, txn, encLog, wire, ctx>>

\* logout(): the post has settled, fulfilled or rejected (the catch only
\* warns); finally { this.client.clearAuthToken() }.
LogoutFinally(p) ==
    /\ proc[p].kind = "logout"
    /\ proc[p].pc \in {"sent", "failed"}
    /\ authToken' = FALSE
    /\ proc' = [proc EXCEPT ![p] = IdleProc]
    /\ UNCHANGED <<store, isInitialized, registered, nextKey, ob, succeeded, canon, txn, encLog, wire, ctx>>

NextLogout ==
    \/ SetAuthToken
    \/ Logout("svc")
    \/ HasKeys("svc")
    \/ GenerateKeyPair("svc")
    \/ RegisterPublicKey("svc")
    \/ RegisterResponse("svc")
    \/ VerifyCryptoStatus("svc")
    \/ LogoutSignData("svc")
    \/ GetKeyFingerprint("svc")
    \/ LogoutFinally("svc")
    \/ ResetCryptoSession

SpecLogout == InitLogout /\ [][NextLogout]_vars

\* C27: bankingService.logout leaves the crypto identity untouched (stated
\* for a key store without identity: no step of a logout call changes its
\* contents).
C27_LogoutLeavesIdentity ==
    [][(proc["svc"].kind = "logout" /\ proc'["svc"] # proc["svc"] /\ store = EmptyStore)
       => store' = store]_vars

\* ------------------------------------------------------- CryptoProvider
\* The context's state is cryptoReady and keyFingerprint; pc is where its
\* running function stands ("mount": the effect has not run; "session" and
\* "fingerprint": awaiting initializeSession and getKeyFingerprint;
\* "onboarding": not ready, CryptoApp renders CryptoOnboarding; "ready"), op
\* the function that is running.
InitContext == Init

\* The catch of initializeCrypto sets cryptoReady false; the catch of
\* completeCryptoSetup returns false and leaves it.
CtxFailed(c) ==
    [c EXCEPT !.pc = "onboarding",
              !.cryptoReady = IF c.op = "initializeCrypto" THEN FALSE ELSE c.cryptoReady]

\* initializeCrypto, from the effect: hasKeys = await cryptoEngine.hasKeys();
\* with keys it goes on to initializeSession, without it sets cryptoReady false.
CtxInitializeCrypto ==
    /\ ctx.pc = "mount"
    /\ \E dbOk \in BOOLEAN :
          ctx' = IF hasKeys(store, dbOk)
                 THEN [ctx EXCEPT !.pc = "session", !.op = "initializeCrypto"]
                 ELSE [ctx EXCEPT !.pc = "onboarding", !.cryptoReady = FALSE]
    /\ UNCHANGED <<store, isInitialized, authToken, registered, nextKey, proc, ob, succeeded, canon, txn, encLog, wire>>

\* await secureApiClient.initializeSession(), in initializeCrypto and in
\* completeCryptoSetup: the whole call (return at once when initialised;
\* with keys, verifyCryptoStatus whose failure is swallowed; without,
\* generateKeyPair and registerPublicKey, each of which may reject).
CtxInitializeSession ==
    /\ ctx.pc = "session"
    /\ \/ /\ isInitialized
          /\ ctx' = [ctx EXCEPT !.pc = "fingerprint"]
          /\ UNCHANGED <<store, isInitialized, registered, nextKey>>
       \/ /\ ~isInitialized
          /\ \E dbOk \in BOOLEAN : hasKeys(store, dbOk)
          /\ isInitialized' = TRUE
          /\ ctx' = [ctx EXCEPT !.pc = "fingerprint"]
          /\ UNCHANGED <<store, registered, nextKey>>
       \/ /\ ~isInitialized
          /\ \E dbOk \in BOOLEAN : ~hasKeys(store, dbOk)
          /\ nextKey \in Keys
          /\ \E hashOk \in BOOLEAN : store' = storeKeyPair(nextKey, hashOk)
          /\ nextKey' = nextKey + 1
          /\ \/ /\ registered' = registered \cup {nextKey}
                /\ isInitialized' = TRUE
                /\ ctx' = [ctx EXCEPT !.pc = "fingerprint"]
             \/ /\ ctx' = CtxFailed(ctx)
                /\ UNCHANGED <<registered, isInitialized>>
       \/ /\ ~isInitialized
          /\ \E dbOk \in BOOLEAN : ~hasKeys(store, dbOk)
          /\ ctx' = CtxFailed(ctx)
          /\ UNCHANGED <<store, isInitialized, registered, nextKey>>
    /\ UNCHANGED <<authToken, proc, ob, succeeded, canon, txn, encLog, wire>>

\* fingerprint = await cryptoEngine.getKeyFingerprint();
\* setKeyFingerprint(fingerprint); setCryptoReady(true).
CtxGetKeyFingerprint ==
    /\ ctx.pc = "fingerprint"
    /\ \E dbOk \in BOOLEAN :
          ctx' = IF getKeyFingerprint(store, dbOk) = "resolved"
                 THEN [ctx EXCEPT !.pc = "ready", !.cryptoReady = TRUE,
                                  !.keyFingerprint = store.meta.fingerprint]
                 ELSE CtxFailed(ctx)
    /\ UNCHANGED <<store, isInitialized, authToken, registered, nextKey, proc, ob, succeeded, canon, txn, encLog, wire>>

\* CryptoOnboarding, rendered while cryptoReady is false, runs to
\* onComplete(true): with keys at once, without after generateKeyPair and
\* the read-back; handleCryptoComplete then calls completeCryptoSetup.
CtxOnboardingComplete ==
    /\ ctx.pc = "onboarding"
    /\ ~ctx.cryptoReady
    /\ \/ /\ \E dbOk \in BOOLEAN : hasKeys(store, dbOk)
          /\ UNCHANGED <<store, nextKey>>
       \/ /\ \E dbOk \in BOOLEAN : ~hasKeys(store, dbOk)
          /\ nextKey \in Keys
          /\ store' = storeKeyPair(nextKey, TRUE)
          /\ nextKey' = nextKey + 1
    /\ ctx' = [ctx EXCEPT !.pc = "session", !.op = "completeCryptoSetup"]
    /\ UNCHANGED <<isInitialized, authToken, registered, proc, ob, succeeded, canon, txn, encLog, wire>>

\* resetCrypto of the context (the CryptoStatus panel): await
\* resetCryptoSession(); setKeyFingerprint(null); setCryptoReady(false).
CtxResetCrypto ==
    /\ ctx.pc = "ready"
    /\ \E dbOk \in BOOLEAN : store' = clearKeys(store, dbOk)
    /\ isInitialized' = FALSE
    /\ succeeded' = FALSE
    /\ ctx' = [ctx EXCEPT !.pc = "onboarding", !.cryptoReady = FALSE,
                          !.keyFingerprint = NoFp]
    /\ UNCHANGED <<authToken, registered, nextKey, proc, ob, canon, txn, encLog, wire>>

\* bankingService.resetCrypto() and the unified client's resetCrypto():
\* resetCryptoSession() on the singleton; the context is not told.
ServiceResetCrypto ==
    /\ ctx.pc # "mount"
    /\ ResetCryptoSession

NextContext ==
    \/ CtxInitializeCrypto
    \/ CtxInitializeSession
    \/ CtxGetKeyFingerprint
    \/ CtxOnboardingComplete
    \/ CtxResetCrypto
    \/ ServiceResetCrypto

SpecContext == InitContext /\ [][NextContext]_vars

\* C30: while cryptoReady is true the engine's session is initialised, the
\* key store holds an identity, and the context's keyFingerprint is the
\* stored fingerprint.
C30_CryptoReadyImpliesSession ==
    ctx.cryptoReady
    => /\ isInitialized
       /\ store.meta.present
       /\ ctx.keyFingerprint = store.meta.fingerprint

====
